---- MODULE Spec2Model ----
(***************************************************************************)
(* Model of the display-server adapter of leftwm:                          *)
(*   - XlibDisplayServer::get_next_events with its process-wide one-shot   *)
(*     latch SETUP, the bootstrap enumeration (initial_events,             *)
(*     find_all_windows) and the blocking wait for one raw event;          *)
(*   - Screen::try_from(&Workspace), the workspace geometry resolver.      *)
(* Several threads call get_next_events on several adapter instances.      *)
(***************************************************************************)
EXTENDS Integers, Sequences, FiniteSets, TLC

\* ---------------------------------------------------------------- bounds
MaxCalls == 2
MaxScreens == 2
MaxWindows == 2
MaxMonitors == 2

\* ------------------------------------------------------ program constants
\* the largest i32, the type of the fields of BBox and of the coordinates
I32Max == 2147483647
I32Min == -I32Max - 1

\* attrs.map_state == 2 (IsViewable)
IsViewable == 2

Threads == {"t1", "t2"}
Adapters == {"a1", "a2"}

\* values the attribute queries of the display server can answer
MapStates == 0..2
OverrideRedirects == {-1, 0, 1}
Transients == {"None", "Some"}

VARIABLES
    SETUP,      \* state of the static Once
    pc,         \* position of each thread inside get_next_events
    self,       \* the adapter a thread's running call was made on
    events,     \* local `events` of get_next_events, per thread
    ievents,    \* local `events` of initial_events, per thread
    all,        \* local `all` of find_all_windows, per thread
    handles,    \* the handles get_all_windows answered, per thread
    seen,       \* history: what the queries answered for each handle so far
    ran,        \* history: this call ran the SETUP closure
    callNo,     \* history: ordinal of the running call on its adapter
    procNo,     \* history: ordinal of the running call in the process
    solo,       \* history: no other call was in flight during the running call
    screens,    \* history: the screens get_screens answered, per thread
    calls,      \* history: number of calls started, per adapter
    enumRuns,   \* history: number of times initial_events was entered, per adapter
    nextRaw,    \* number of raw events handed out so far, per adapter connection
    returned,   \* history: the batches handed to the consumer, in order of return
    xlib_event, \* local `xlib_event` of get_next_events: <<>> before the wait
    enumLog,    \* history: what get_screens and get_all_windows answered
    rpc, wsc, topo, result, queries,  \* the resolver (Screen::try_from)
    gop,        \* the geometry operation applied last
    gbbox,      \* the bbox of the Screen it was applied to
    gargs,      \* its arguments
    gres        \* its outcome: "true", "false" or "panic"

avars == <<SETUP, pc, self, events, ievents, all, handles, seen, ran, callNo,
           procNo, solo, screens, calls, enumRuns, nextRaw, returned,
           xlib_event, enumLog>>
rvars == <<rpc, wsc, topo, result, queries>>
gvars == <<gop, gbbox, gargs, gres>>
vars == <<avars, rvars, gvars>>

\* ------------------------------------------------------------ event items
ScreenCreate(s) == <<"ScreenCreate", s>>
WindowCreate(w) == <<"WindowCreate", w>>
LiveItem(id) == <<"Live", id>>

RECURSIVE Sum(_, _)
Sum(f, S) == IF S = {} THEN 0
             ELSE LET x == CHOOSE y \in S : TRUE IN f[x] + Sum(f, S \ {x})

\* --------------------------------------------------- std::sync::Once SETUP
\* a latch that is never set: the closure runs again after it has completed
OnceRunsClosureAgain(s) == s \in {"incomplete", "complete"}

\* a plain flag that is set only after the closure: a second caller that
\* arrives while the closure runs starts it too
OnceRunsClosureRacy(s) == s \in {"incomplete", "running"}

\* call_once runs the closure iff no call_once has started it yet
OnceRunsClosure(s) == s = "incomplete"

\* call_once returns without running the closure iff it has completed
OnceSkips(s) == s = "complete"

\* call_once panics when an earlier closure panicked
OncePoisoned(s) == s = "poisoned"

\* ------------------------------------------------- eligibility (l. 75-79)
\* the override_redirect test applied to transient windows too
ManagedIgnoringTransient(map_state, override_redirect, transient) ==
    override_redirect <= 0 /\ map_state = IsViewable

Managed(map_state, override_redirect, transient) ==
    IF transient # "None"
    THEN map_state = IsViewable
    ELSE override_redirect <= 0 /\ map_state = IsViewable

\* ------------------------------------------------------------ Option<T>
\* None is the empty sequence, Some(v) is <<v>>
None == <<>>
Some(v) == <<v>>
UnwrapOr(o, d) == IF o = None THEN d ELSE o[1]

NoConfig == [output_name |-> None, x |-> None, y |-> None,
             width |-> None, height |-> None, id |-> None,
             max_window_width |-> None]

\* ------------------------------------------------------------------ Init
\* the process right after start: the Once untouched, no call made
Init ==
    /\ SETUP = "incomplete"
    /\ pc = [t \in Threads |-> "idle"]
    /\ self = [t \in Threads |-> "none"]
    /\ events = [t \in Threads |-> <<>>]
    /\ ievents = [t \in Threads |-> <<>>]
    /\ all = [t \in Threads |-> <<>>]
    /\ handles = [t \in Threads |-> <<>>]
    /\ seen = [t \in Threads |-> <<>>]
    /\ ran = [t \in Threads |-> FALSE]
    /\ callNo = [t \in Threads |-> 0]
    /\ procNo = [t \in Threads |-> 0]
    /\ solo = [t \in Threads |-> FALSE]
    /\ screens = [t \in Threads |-> <<>>]
    /\ calls = [a \in Adapters |-> 0]
    /\ enumRuns = [a \in Adapters |-> 0]
    /\ nextRaw = [a \in Adapters |-> 0]
    /\ returned = <<>>
    /\ xlib_event = [t \in Threads |-> <<>>]
    /\ enumLog = [screens |-> <<>>, windows |-> "unqueried"]
    /\ rpc = "idle"
    /\ wsc = NoConfig
    /\ topo = [status |-> "unqueried", monitors |-> <<>>]
    /\ result = [tag |-> "none"]
    /\ queries = 0
    /\ gop = "none"
    /\ gbbox = [x |-> 0, y |-> 0, width |-> 0, height |-> 0]
    /\ gargs = [x |-> 0, y |-> 0]
    /\ gres = "none"

\* ------------------------------------------------------- get_next_events
\* a thread is inside get_next_events
InFlight(t) == pc[t] \notin {"idle", "panicked"}

\* l. 30-31: a thread enters get_next_events on adapter a
Call(t, a) ==
    /\ pc[t] = "idle"
    /\ Sum(calls, Adapters) < MaxCalls
    /\ pc' = [pc EXCEPT ![t] = "call_once"]
    /\ self' = [self EXCEPT ![t] = a]
    /\ events' = [events EXCEPT ![t] = <<>>]
    /\ ran' = [ran EXCEPT ![t] = FALSE]
    /\ calls' = [calls EXCEPT ![a] = @ + 1]
    /\ callNo' = [callNo EXCEPT ![t] = calls[a] + 1]
    /\ procNo' = [procNo EXCEPT ![t] = Sum(calls, Adapters) + 1]
    /\ solo' = [u \in Threads |->
                   IF u = t THEN \A v \in Threads \ {t} : ~InFlight(v) ELSE FALSE]
    /\ UNCHANGED <<SETUP, ievents, all, handles, seen, screens, enumRuns, nextRaw,
                   returned>>
    /\ xlib_event' = [xlib_event EXCEPT ![t] = <<>>]
    /\ UNCHANGED <<enumLog, rvars, gvars>>

\* l. 32: call_once finds the latch untouched and starts the closure;
\* l. 50-51: initial_events is entered
BeginSetup(t) ==
    /\ pc[t] = "call_once"
    /\ OnceRunsClosure(SETUP)
    /\ SETUP' = "running"
    /\ pc' = [pc EXCEPT ![t] = "get_screens"]
    /\ ran' = [ran EXCEPT ![t] = TRUE]
    /\ enumRuns' = [enumRuns EXCEPT ![self[t]] = @ + 1]
    /\ ievents' = [ievents EXCEPT ![t] = <<>>]
    /\ all' = [all EXCEPT ![t] = <<>>]
    /\ handles' = [handles EXCEPT ![t] = <<>>]
    /\ seen' = [seen EXCEPT ![t] = <<>>]
    /\ screens' = [screens EXCEPT ![t] = <<>>]
    /\ UNCHANGED <<self, events, callNo, procNo, solo, calls, nextRaw, returned>>
    /\ UNCHANGED <<xlib_event, enumLog, rvars, gvars>>

\* l. 32: call_once finds the closure completed and returns at once
SkipSetup(t) ==
    /\ pc[t] = "call_once"
    /\ OnceSkips(SETUP)
    /\ pc' = [pc EXCEPT ![t] = "get_next_event"]
    /\ UNCHANGED <<SETUP, self, events, ievents, all, handles, seen, ran, callNo,
                   procNo, solo, screens, calls, enumRuns, nextRaw, returned>>
    /\ UNCHANGED <<xlib_event, enumLog, rvars, gvars>>

\* l. 32: call_once on a poisoned Once panics; the call never returns
PoisonedPanic(t) ==
    /\ pc[t] = "call_once"
    /\ OncePoisoned(SETUP)
    /\ pc' = [pc EXCEPT ![t] = "panicked"]
    /\ UNCHANGED <<SETUP, self, events, ievents, all, handles, seen, ran, callNo,
                   procNo, solo, screens, calls, enumRuns, nextRaw, returned>>
    /\ UNCHANGED <<xlib_event, enumLog, rvars, gvars>>

\* l. 53-57: one ScreenCreate per screen get_screens answers, in its order
ScreenEvents(ss) == [i \in 1..Len(ss) |-> ScreenCreate(ss[i])]

GetScreens(t) ==
    /\ pc[t] = "get_screens"
    /\ \E n \in 0..MaxScreens :
          LET ss == [i \in 1..n |-> i] IN
          /\ screens' = [screens EXCEPT ![t] = ss]
          /\ enumLog' = [enumLog EXCEPT !.screens = ss]
          /\ ievents' = [ievents EXCEPT ![t] = @ \o ScreenEvents(ss)]
    /\ pc' = [pc EXCEPT ![t] = "get_all_windows"]
    /\ UNCHANGED <<SETUP, self, events, all, handles, seen, ran, callNo,
                   procNo, solo, calls, enumRuns, nextRaw, returned>>
    /\ UNCHANGED <<xlib_event, rvars, gvars>>

\* l. 69-71: get_all_windows answers Ok(handles)
GetAllWindowsOk(t) ==
    /\ pc[t] = "get_all_windows"
    /\ \E n \in 0..MaxWindows :
          handles' = [handles EXCEPT ![t] = [i \in 1..n |-> i]]
    /\ all' = [all EXCEPT ![t] = <<>>]
    /\ enumLog' = [enumLog EXCEPT !.windows = "Ok"]
    /\ pc' = [pc EXCEPT ![t] = "for_handle"]
    /\ UNCHANGED <<SETUP, self, events, ievents, seen, ran, callNo,
                   procNo, solo, screens, calls, enumRuns, nextRaw, returned>>
    /\ UNCHANGED <<xlib_event, rvars, gvars>>

\* l. 80-84: a managed window is pushed onto all
PushIfManaged(acc, handle, managed) ==
    IF managed THEN Append(acc, handle) ELSE acc

\* l. 72-85: one iteration of the loop over the handles, the attribute query
\* answering Ok(attrs)
ForHandleOk(t) ==
    /\ pc[t] = "for_handle"
    /\ Len(seen[t]) < Len(handles[t])
    /\ LET handle == handles[t][Len(seen[t]) + 1] IN
       \E ms \in MapStates, ovr \in OverrideRedirects, tr \in Transients :
          /\ seen' = [seen EXCEPT ![t] = Append(@,
                        [handle |-> handle, ok |-> TRUE, map_state |-> ms,
                         override_redirect |-> ovr, transient |-> tr])]
          /\ all' = [all EXCEPT ![t] =
                        PushIfManaged(@, handle, Managed(ms, ovr, tr))]
    /\ UNCHANGED <<SETUP, pc, self, events, ievents, handles, ran, callNo,
                   procNo, solo, screens, calls, enumRuns, nextRaw, returned>>
    /\ UNCHANGED <<xlib_event, enumLog, rvars, gvars>>

\* l. 73: the attribute query fails and unwrap() panics inside the closure:
\* the Once is poisoned and the panic unwinds get_next_events
ForHandleErr(t) ==
    /\ pc[t] = "for_handle"
    /\ Len(seen[t]) < Len(handles[t])
    /\ LET handle == handles[t][Len(seen[t]) + 1] IN
          seen' = [seen EXCEPT ![t] = Append(@,
                        [handle |-> handle, ok |-> FALSE, map_state |-> 0,
                         override_redirect |-> 0, transient |-> "None"])]
    /\ SETUP' = "poisoned"
    /\ pc' = [pc EXCEPT ![t] = "panicked"]
    /\ UNCHANGED <<self, events, ievents, all, handles, ran, callNo,
                   procNo, solo, screens, calls, enumRuns, nextRaw, returned>>
    /\ UNCHANGED <<xlib_event, enumLog, rvars, gvars>>

\* the window events in reverse order
WindowEventsReversed(ws) ==
    [i \in 1..Len(ws) |-> WindowCreate(ws[Len(ws) + 1 - i])]

\* l. 59-62: one WindowCreate per window of find_all_windows, in its order
WindowEvents(ws) == [i \in 1..Len(ws) |-> WindowCreate(ws[i])]

\* l. 72, 91, 58-63: the loop over the handles is over, find_all_windows
\* returns all, initial_events appends the window events and returns
InitialEventsReturn(t) ==
    /\ pc[t] = "for_handle"
    /\ Len(seen[t]) = Len(handles[t])
    /\ ievents' = [ievents EXCEPT ![t] = @ \o WindowEvents(all[t])]
    /\ pc' = [pc EXCEPT ![t] = "push"]
    /\ UNCHANGED <<SETUP, self, events, all, handles, seen, ran, callNo,
                   procNo, solo, screens, calls, enumRuns, nextRaw, returned>>
    /\ UNCHANGED <<xlib_event, enumLog, rvars, gvars>>

\* get_all_windows answers Err and the error is unwrapped like the one of
\* get_window_attrs: the closure panics
GetAllWindowsErrPanics(t) ==
    /\ pc[t] = "get_all_windows"
    /\ enumLog' = [enumLog EXCEPT !.windows = "Err"]
    /\ SETUP' = "poisoned"
    /\ pc' = [pc EXCEPT ![t] = "panicked"]
    /\ UNCHANGED <<self, events, ievents, all, handles, seen, ran, callNo,
                   procNo, solo, screens, calls, enumRuns, nextRaw, returned>>
    /\ UNCHANGED <<xlib_event, rvars, gvars>>

\* l. 87-91, 58-63: get_all_windows answers Err: the error is printed,
\* find_all_windows returns the empty all and initial_events returns with no
\* window event
GetAllWindowsErr(t) ==
    /\ pc[t] = "get_all_windows"
    /\ all' = [all EXCEPT ![t] = <<>>]
    /\ enumLog' = [enumLog EXCEPT !.windows = "Err"]
    /\ handles' = [handles EXCEPT ![t] = <<>>]
    /\ ievents' = [ievents EXCEPT ![t] = @ \o WindowEvents(<<>>)]
    /\ pc' = [pc EXCEPT ![t] = "push"]
    /\ UNCHANGED <<SETUP, self, events, seen, ran, callNo,
                   procNo, solo, screens, calls, enumRuns, nextRaw, returned>>
    /\ UNCHANGED <<xlib_event, rvars, gvars>>

\* l. 33-36: the closure pushes every initial event onto events and
\* completes the Once; the locals of initial_events are dropped
FinishSetup(t) ==
    /\ pc[t] = "push"
    /\ events' = [events EXCEPT ![t] = @ \o ievents[t]]
    /\ SETUP' = "complete"
    /\ ievents' = [ievents EXCEPT ![t] = <<>>]
    /\ all' = [all EXCEPT ![t] = <<>>]
    /\ handles' = [handles EXCEPT ![t] = <<>>]
    /\ seen' = [seen EXCEPT ![t] = <<>>]
    /\ screens' = [screens EXCEPT ![t] = <<>>]
    /\ pc' = [pc EXCEPT ![t] = "get_next_event"]
    /\ UNCHANGED <<self, ran, callNo, procNo, solo, calls, enumRuns, nextRaw, returned>>
    /\ UNCHANGED <<xlib_event, enumLog, rvars, gvars>>

\* event_translate::from_xevent: zero or one item per raw event
FromXEvent(raw) ==
    IF raw.relevant THEN <<LiveItem(<<raw.conn, raw.seq>>)>> ELSE <<>>

\* the translated item put in front of the batch
PushTranslatedFirst(evs, item) == item \o evs

\* l. 39-41: if let Some(e) = event { events.push(e) }; item is <<>> or <<e>>
PushTranslated(evs, item) == evs \o item

\* l. 37-41: the blocked wait gets the connection's next raw event, which is
\* translated and pushed when it yields an item
GetNextEvent(t) ==
    /\ pc[t] = "get_next_event"
    /\ \E relevant \in BOOLEAN :
          LET raw == [conn |-> self[t], seq |-> nextRaw[self[t]] + 1,
                      relevant |-> relevant]
          IN /\ xlib_event' = [xlib_event EXCEPT ![t] = <<raw>>]
             /\ events' = [events EXCEPT ![t] = PushTranslated(@, FromXEvent(raw))]
    /\ nextRaw' = [nextRaw EXCEPT ![self[t]] = @ + 1]
    /\ pc' = [pc EXCEPT ![t] = "return"]
    /\ UNCHANGED <<SETUP, self, ievents, all, handles, seen, ran, callNo,
                   procNo, solo, screens, calls, enumRuns, returned>>
    /\ UNCHANGED <<enumLog, rvars, gvars>>

\* l. 42: the batch is handed to the consumer; the call's locals are dropped
Return(t) ==
    /\ pc[t] = "return"
    /\ returned' = Append(returned,
                     [thread |-> t, adapter |-> self[t], callNo |-> callNo[t],
                      procNo |-> procNo[t], solo |-> solo[t], ran |-> ran[t],
                      raw |-> xlib_event[t], batch |-> events[t]])
    /\ pc' = [pc EXCEPT ![t] = "idle"]
    /\ events' = [events EXCEPT ![t] = <<>>]
    /\ self' = [self EXCEPT ![t] = "none"]
    /\ ran' = [ran EXCEPT ![t] = FALSE]
    /\ callNo' = [callNo EXCEPT ![t] = 0]
    /\ procNo' = [procNo EXCEPT ![t] = 0]
    /\ solo' = [solo EXCEPT ![t] = FALSE]
    /\ UNCHANGED <<SETUP, ievents, all, handles, seen, screens, calls, enumRuns,
                   nextRaw>>
    /\ xlib_event' = [xlib_event EXCEPT ![t] = <<>>]
    /\ UNCHANGED <<enumLog, rvars, gvars>>

Next ==
    \/ \E t \in Threads, a \in Adapters : Call(t, a)
    \/ \E t \in Threads : BeginSetup(t)
    \/ \E t \in Threads : SkipSetup(t)
    \/ \E t \in Threads : PoisonedPanic(t)
    \/ \E t \in Threads : GetScreens(t)
    \/ \E t \in Threads : GetAllWindowsOk(t)
    \/ \E t \in Threads : GetAllWindowsErr(t)
    \/ \E t \in Threads : ForHandleOk(t)
    \/ \E t \in Threads : ForHandleErr(t)
    \/ \E t \in Threads : InitialEventsReturn(t)
    \/ \E t \in Threads : FinishSetup(t)
    \/ \E t \in Threads : GetNextEvent(t)
    \/ \E t \in Threads : Return(t)

Spec == Init /\ [][Next]_vars

\* ------------------------------------------- Screen::try_from(&Workspace)
\* the workspace configs tried: every presence combination of the fields
Configs == [output_name : {None, Some("HDMI-1"), Some("missing")},
            x : {None, Some(10)}, y : {None, Some(20)},
            width : {None, Some(800)}, height : {None, Some(600)},
            id : {None, Some(1)}, max_window_width : {None, Some(400)}]

\* the monitors xrandr can report
Monitors == [name : {"HDMI-1", "DP-1"}, x : {0, 1920}, y : {0, 30},
             width_px : {1920}, height_px : {1080}]
MonitorLists == UNION {[1..n -> Monitors] : n \in 0..MaxMonitors}

Ok(screen) == [tag |-> "Ok", screen |-> screen]
Err(msg) == [tag |-> "Err", msg |-> msg]

\* the literal arm without its test of output_name
IsLiteralArmAnyName(c) ==
    c.x # None /\ c.y # None /\ c.width # None /\ c.height # None

\* l. 87: the arm (None, Some(x), Some(y), Some(width), Some(height))
IsLiteralArm(c) ==
    /\ c.output_name = None
    /\ c.x # None /\ c.y # None /\ c.width # None /\ c.height # None

\* the second arm written with a wildcard for the output name
IsNamedArmWildcard(c) == ~IsLiteralArm(c)

\* l. 98: the arm (Some(name), _, _, _, _), tried after the literal arm
IsNamedArm(c) == ~IsLiteralArm(c) /\ c.output_name # None

\* the literal screen with y taken from the config's x
LiteralScreenYFromX(c) ==
    [root |-> "MockHandle(0)", wsid |-> c.id,
     max_window_width |-> c.max_window_width,
     bbox |-> [x |-> c.x[1], y |-> c.x[1],
               width |-> c.width[1], height |-> c.height[1]]]

\* l. 87-97: the screen built from the literal coordinates
LiteralScreen(c) ==
    [root |-> "MockHandle(0)", wsid |-> c.id,
     max_window_width |-> c.max_window_width,
     bbox |-> [x |-> c.x[1], y |-> c.y[1],
               width |-> c.width[1], height |-> c.height[1]]]

\* l. 102-104: iter().find(): index of the first monitor of that name, 0 if none
FindMonitor(monitors, name) ==
    IF \E i \in 1..Len(monitors) : monitors[i].name = name
    THEN CHOOSE i \in 1..Len(monitors) :
            /\ monitors[i].name = name
            /\ \A j \in 1..(i - 1) : monitors[j].name # name
    ELSE 0

\* the screen of the matched monitor as From<&Monitor> builds it, without the
\* config's id and max_window_width
NamedScreenNoId(c, monitor) ==
    [root |-> "MockHandle(0)", wsid |-> None,
     max_window_width |-> None,
     bbox |-> [x |-> UnwrapOr(c.x, monitor.x),
               y |-> UnwrapOr(c.x, monitor.y),
               width |-> UnwrapOr(c.width, monitor.width_px),
               height |-> UnwrapOr(c.height, monitor.height_px)]]

\* l. 106-116: the screen built from the config and the matched monitor
NamedScreen(c, monitor) ==
    [root |-> "MockHandle(0)", wsid |-> c.id,
     max_window_width |-> c.max_window_width,
     bbox |-> [x |-> UnwrapOr(c.x, monitor.x),
               y |-> UnwrapOr(c.x, monitor.y),
               width |-> UnwrapOr(c.width, monitor.width_px),
               height |-> UnwrapOr(c.height, monitor.height_px)]]

\* l. 79-86: try_from is called with a workspace config
TryFromCall ==
    /\ rpc = "idle"
    /\ \E c \in Configs : wsc' = c
    /\ rpc' = "match"
    /\ UNCHANGED <<topo, result, queries>>
    /\ UNCHANGED <<avars, gvars>>

\* l. 87-97: literal coordinates, no output name
MatchLiteral ==
    /\ rpc = "match"
    /\ IsLiteralArm(wsc)
    /\ result' = Ok(LiteralScreen(wsc))
    /\ rpc' = "done"
    /\ UNCHANGED <<wsc, topo, queries>>
    /\ UNCHANGED <<avars, gvars>>

\* l. 98: an output is named
MatchNamed ==
    /\ rpc = "match"
    /\ IsNamedArm(wsc)
    /\ rpc' = "open"
    /\ UNCHANGED <<wsc, topo, result, queries>>
    /\ UNCHANGED <<avars, gvars>>

\* l. 118: any other combination
MatchOther ==
    /\ rpc = "match"
    /\ ~IsLiteralArm(wsc) /\ ~IsNamedArm(wsc)
    /\ result' = Err("foo")
    /\ rpc' = "done"
    /\ UNCHANGED <<wsc, topo, queries>>
    /\ UNCHANGED <<avars, gvars>>

\* l. 99-100: XHandle::open() succeeds
OpenOk ==
    /\ rpc = "open"
    /\ queries' = queries + 1
    /\ topo' = [topo EXCEPT !.status = "open"]
    /\ rpc' = "monitors"
    /\ UNCHANGED <<wsc, result>>
    /\ UNCHANGED <<avars, gvars>>

\* l. 99-100: XHandle::open() fails
OpenErr ==
    /\ rpc = "open"
    /\ queries' = queries + 1
    /\ topo' = [topo EXCEPT !.status = "open_failed"]
    /\ result' = Err("could not open xrandr")
    /\ rpc' = "done"
    /\ UNCHANGED wsc
    /\ UNCHANGED <<avars, gvars>>

\* l. 101: monitors() answers the list of monitors
MonitorsOk ==
    /\ rpc = "monitors"
    /\ queries' = queries + 1
    /\ \E ms \in MonitorLists : topo' = [status |-> "ok", monitors |-> ms]
    /\ rpc' = "find"
    /\ UNCHANGED <<wsc, result>>
    /\ UNCHANGED <<avars, gvars>>

\* l. 101: monitors() fails
MonitorsErr ==
    /\ rpc = "monitors"
    /\ queries' = queries + 1
    /\ topo' = [topo EXCEPT !.status = "monitors_failed"]
    /\ result' = Err("monitors")
    /\ rpc' = "done"
    /\ UNCHANGED wsc
    /\ UNCHANGED <<avars, gvars>>

\* l. 102-105: no monitor has the name
FindNone ==
    /\ rpc = "find"
    /\ FindMonitor(topo.monitors, wsc.output_name[1]) = 0
    /\ result' = Err("could not find monitor")
    /\ rpc' = "done"
    /\ UNCHANGED <<wsc, topo, queries>>
    /\ UNCHANGED <<avars, gvars>>

\* l. 102-116: a monitor has the name
FindSome ==
    /\ rpc = "find"
    /\ FindMonitor(topo.monitors, wsc.output_name[1]) # 0
    /\ result' = Ok(NamedScreen(wsc,
                      topo.monitors[FindMonitor(topo.monitors, wsc.output_name[1])]))
    /\ rpc' = "done"
    /\ UNCHANGED <<wsc, topo, queries>>
    /\ UNCHANGED <<avars, gvars>>

NextResolver ==
    \/ TryFromCall
    \/ MatchLiteral
    \/ MatchNamed
    \/ MatchOther
    \/ OpenOk
    \/ OpenErr
    \/ MonitorsOk
    \/ MonitorsErr
    \/ FindNone
    \/ FindSome

SpecResolver == Init /\ [][NextResolver]_vars

\* ================================================================ claims
IsBootstrapItem(e) == e[1] \in {"ScreenCreate", "WindowCreate"}
IsLive(e) == e[1] = "Live"
HasBootstrap(batch) == \E k \in DOMAIN batch : IsBootstrapItem(batch[k])
HasLive(batch) == \E k \in DOMAIN batch : IsLive(batch[k])

\* no bootstrap item occurs twice in a batch
NoItemTwice(batch) ==
    \A k, l \in DOMAIN batch :
       (k < l /\ IsBootstrapItem(batch[k]) /\ IsBootstrapItem(batch[l]))
          => batch[k] # batch[l]

\* C1: in a sequence of get_next_events calls (no call overlaps another) the
\* bootstrap enumeration runs exactly once, in the first call, and no later
\* call's result contains a ScreenCreate or WindowCreate of the startup set.
C1_BootstrapOnlyInFirstCall ==
    \A i \in DOMAIN returned :
       LET r == returned[i] IN
       r.solo =>
          /\ r.procNo = 1 => (r.ran /\ Sum(enumRuns, Adapters) = 1)
          /\ r.procNo > 1 => (~r.ran /\ ~HasBootstrap(r.batch)
                              /\ Sum(enumRuns, Adapters) <= 1)

\* two calls in sequence on one adapter: the first returned the bootstrap
\* items, the second none
C1_Witness ==
    \E i, j \in DOMAIN returned :
       /\ i < j
       /\ returned[i].solo /\ returned[i].procNo = 1 /\ returned[i].ran
       /\ HasBootstrap(returned[i].batch)
       /\ returned[j].solo /\ returned[j].procNo = 2
       /\ returned[j].adapter = returned[i].adapter
       /\ ~HasBootstrap(returned[j].batch)

\* the calls that ran the SETUP closure: still running, or returned
RanInFlight == {t \in Threads : InFlight(t) /\ ran[t]}
RanReturned == {i \in DOMAIN returned : returned[i].ran}

\* C2: under every interleaving of concurrent calls the enumeration is run
\* at most once, the bootstrap items are in the batch of the one call that
\* ran it and of no other, and no screen or window of the startup set is
\* emitted twice.
C2_AtMostOnceUnderRaces ==
    /\ Sum(enumRuns, Adapters) <= 1
    /\ Cardinality(RanInFlight) + Cardinality(RanReturned) <= 1
    /\ SETUP = "complete" => Cardinality(RanInFlight) + Cardinality(RanReturned) = 1
    /\ \A i \in DOMAIN returned :
          /\ HasBootstrap(returned[i].batch) => returned[i].ran
          /\ NoItemTwice(returned[i].batch)
    /\ \A t \in Threads :
          /\ (InFlight(t) /\ HasBootstrap(events[t])) => ran[t]
          /\ NoItemTwice(events[t])

\* two overlapping calls have both returned, exactly one of them with the
\* bootstrap items
C2_Witness ==
    \E i, j \in DOMAIN returned :
       /\ i # j
       /\ ~returned[i].solo /\ ~returned[j].solo
       /\ returned[i].adapter = returned[j].adapter
       /\ returned[i].ran /\ HasBootstrap(returned[i].batch)
       /\ ~returned[j].ran /\ ~HasBootstrap(returned[j].batch)

\* C3: no call returns a live-translated item before the call that ran the
\* bootstrap has returned its batch, and inside a batch the bootstrap items
\* precede the translated item.
C3_BootstrapBeforeLive ==
    \A i \in DOMAIN returned :
       /\ HasLive(returned[i].batch) => \E j \in 1..i : returned[j].ran
       /\ \A k, l \in DOMAIN returned[i].batch :
             (IsBootstrapItem(returned[i].batch[k]) /\ IsLive(returned[i].batch[l]))
                => k < l

\* C4: the latch belongs to the adapter instance: the first call on every
\* adapter runs the bootstrap enumeration, exactly once per adapter.
C4_LatchPerInstance ==
    /\ \A a \in Adapters : enumRuns[a] <= 1
    /\ \A i \in DOMAIN returned :
          (returned[i].solo /\ returned[i].callNo = 1) => returned[i].ran

\* the window part of a batch of initial events
WindowPart(evs) == SelectSeq(evs, LAMBDA e : e[1] = "WindowCreate")
ScreenPart(evs) == SelectSeq(evs, LAMBDA e : e[1] = "ScreenCreate")

\* the handles whose attribute query succeeded and that the rule accepts
AcceptedOf(sn) ==
    LET acc == SelectSeq(sn, LAMBDA q :
                   q.ok /\ Managed(q.map_state, q.override_redirect, q.transient))
    IN [k \in 1..Len(acc) |-> acc[k].handle]

\* C5: a failing attribute query for one window does not abort the
\* enumeration: the call goes on and initial_events returns one WindowCreate
\* per other eligible window, in enumeration order.
C5_QueryFailureDoesNotAbort ==
    \A t \in Threads :
       (\E k \in DOMAIN seen[t] : ~seen[t][k].ok) =>
          /\ pc[t] # "panicked"
          /\ SETUP # "poisoned"
          /\ pc[t] = "push" =>
                WindowPart(ievents[t]) = WindowEvents(AcceptedOf(seen[t]))

\* the number of positions of evs holding item (tag, id)
CountIn(evs, tag, id) ==
    Cardinality({k \in DOMAIN evs : evs[k][1] = tag /\ evs[k][2] = id})

\* C6: the batch initial_events returns holds exactly one ScreenCreate per
\* enumerated screen, exactly one WindowCreate per enumerated window the
\* eligibility rule accepts and none for a rejected one, each group in
\* enumeration order, every ScreenCreate before every WindowCreate.
C6_BootstrapBatchShape ==
    \A t \in Threads :
       pc[t] = "push" =>
          LET evs == ievents[t]
              nAcc == Cardinality({k \in DOMAIN seen[t] :
                         Managed(seen[t][k].map_state, seen[t][k].override_redirect,
                                 seen[t][k].transient)})
          IN
          /\ \A s \in DOMAIN screens[t] : CountIn(evs, "ScreenCreate", screens[t][s]) = 1
          /\ \A k \in DOMAIN seen[t] :
                CountIn(evs, "WindowCreate", seen[t][k].handle) =
                   IF Managed(seen[t][k].map_state, seen[t][k].override_redirect,
                              seen[t][k].transient) THEN 1 ELSE 0
          /\ Len(evs) = Len(screens[t]) + nAcc
          /\ \A k, l \in DOMAIN evs :
                /\ (evs[k][1] = "ScreenCreate" /\ evs[l][1] = "WindowCreate") => k < l
                /\ (evs[k][1] = evs[l][1] /\ k < l) => evs[k][2] < evs[l][2]

\* a batch of two screens and one window, a second window being rejected
C6_Witness ==
    \E t \in Threads :
       /\ pc[t] = "push"
       /\ Len(screens[t]) = 2
       /\ Len(seen[t]) = 2
       /\ Len(WindowPart(ievents[t])) = 1
       /\ Len(ScreenPart(ievents[t])) = 2

Range(f) == {f[k] : k \in DOMAIN f}

\* C7: a queried window is managed iff, with a transient owner, map_state is
\* viewable (2) whatever override_redirect is, and, without one,
\* override_redirect <= 0 and map_state is viewable (2).
C7_EligibilityRule ==
    \A t \in Threads :
       pc[t] \in {"for_handle", "push"} =>
          \A k \in DOMAIN seen[t] :
             LET q == seen[t][k] IN
             q.ok =>
               ((q.handle \in Range(all[t])) <=>
                  \/ (q.transient = "Some" /\ q.map_state = 2)
                  \/ (q.transient = "None" /\ q.override_redirect <= 0
                        /\ q.map_state = 2))

\* a viewable override-redirect window with a transient owner was accepted
\* and one without an owner rejected
C7_Witness ==
    \E t \in Threads :
       /\ pc[t] = "push"
       /\ Len(seen[t]) = 2
       /\ seen[t][1].transient = "Some" /\ seen[t][1].override_redirect = 1
       /\ seen[t][1].map_state = 2
       /\ seen[t][2].transient = "None" /\ seen[t][2].override_redirect = 1
       /\ seen[t][2].map_state = 2
       /\ all[t] = <<seen[t][1].handle>>

\* the resolver has returned for a config that names an output
NamedDone == rpc = "done" /\ wsc.output_name # None

\* the topology query answered and a monitor has exactly the config's name
MonitorExists ==
    /\ topo.status = "ok"
    /\ \E i \in DOMAIN topo.monitors : topo.monitors[i].name = wsc.output_name[1]

\* C8: with a named output and a monitor of that name, try_from succeeds and
\* each of bbox.x, bbox.y, bbox.width, bbox.height is the config's value for
\* that field if present, else the matched monitor's x, y, width_px, height_px.
C8_NamedOutputFillsEachField ==
    (NamedDone /\ MonitorExists) =>
       LET m == topo.monitors[FindMonitor(topo.monitors, wsc.output_name[1])] IN
       /\ result.tag = "Ok"
       /\ result.screen.bbox.x = UnwrapOr(wsc.x, m.x)
       /\ result.screen.bbox.y = UnwrapOr(wsc.y, m.y)
       /\ result.screen.bbox.width = UnwrapOr(wsc.width, m.width_px)
       /\ result.screen.bbox.height = UnwrapOr(wsc.height, m.height_px)

\* C9: with a named output try_from succeeds only if the topology query
\* answered and a monitor has exactly that name; otherwise it fails, also
\* when x, y, width and height are all set.
C9_NamedOutputNeverFallsBack ==
    NamedDone => (result.tag = "Ok" <=> MonitorExists)

\* a fully specified config naming an absent output failed against a
\* topology that has monitors
C9_Witness ==
    /\ NamedDone
    /\ wsc.x # None /\ wsc.y # None /\ wsc.width # None /\ wsc.height # None
    /\ topo.status = "ok" /\ Len(topo.monitors) > 0
    /\ ~MonitorExists
    /\ result.tag = "Err"

\* C10: with no output name and x, y, width, height all set, try_from
\* succeeds with bbox {x, y, width, height} of the config and performs no
\* topology query.
C10_LiteralCoordinates ==
    (/\ rpc = "done"
     /\ wsc.output_name = None
     /\ wsc.x # None /\ wsc.y # None /\ wsc.width # None /\ wsc.height # None)
    =>
       /\ result.tag = "Ok"
       /\ result.screen.bbox = [x |-> wsc.x[1], y |-> wsc.y[1],
                                 width |-> wsc.width[1], height |-> wsc.height[1]]
       /\ queries = 0
       /\ topo.status = "unqueried"

\* the config {None, 10, 20, 800, 600} resolved to that rectangle
C10_Witness ==
    /\ rpc = "done"
    /\ wsc.output_name = None
    /\ result.tag = "Ok"
    /\ result.screen.bbox = [x |-> 10, y |-> 20, width |-> 800, height |-> 600]
    /\ queries = 0

\* all of x, y, width, height are present in the config
AllCoordinates ==
    wsc.x # None /\ wsc.y # None /\ wsc.width # None /\ wsc.height # None

\* the three outcomes of the resolver
LiteralCase == wsc.output_name = None /\ AllCoordinates
                  /\ result.tag = "Ok" /\ queries = 0
NamedCase == wsc.output_name # None /\ queries >= 1
AmbiguousCase == wsc.output_name = None /\ ~AllCoordinates
                    /\ result.tag = "Err" /\ queries = 0

\* C11: with no output name and one of x, y, width, height missing, try_from
\* fails without a topology query; over all presence combinations of
\* output_name, x, y, width, height exactly one of the literal, named and
\* ambiguous cases applies.
C11_AmbiguousConfigFails ==
    rpc = "done" =>
       /\ (wsc.output_name = None /\ ~AllCoordinates) =>
             (result.tag = "Err" /\ queries = 0 /\ topo.status = "unqueried")
       /\ LiteralCase \/ NamedCase \/ AmbiguousCase
       /\ ~(LiteralCase /\ NamedCase)
       /\ ~(LiteralCase /\ AmbiguousCase)
       /\ ~(NamedCase /\ AmbiguousCase)

\* the config {None, x: 10, y: None, ...} failed with no query made
C11_Witness ==
    /\ rpc = "done"
    /\ wsc.output_name = None /\ wsc.x = Some(10) /\ wsc.y = None
    /\ result.tag = "Err"
    /\ queries = 0

\* C12: every screen try_from returns, on the literal and on the named path,
\* has wsid equal to the config's id and max_window_width equal to the
\* config's max_window_width.
C12_IdAndMaxWidthCarried ==
    (rpc = "done" /\ result.tag = "Ok") =>
       /\ result.screen.wsid = wsc.id
       /\ result.screen.max_window_width = wsc.max_window_width

\* a named config with an id and a max_window_width resolved to a screen
C12_Witness ==
    /\ rpc = "done"
    /\ result.tag = "Ok"
    /\ wsc.output_name # None
    /\ wsc.id = Some(1) /\ wsc.max_window_width = Some(400)
    /\ result.screen.wsid = Some(1)
    /\ result.screen.max_window_width = Some(400)

\* ------------------------------------------------------- geometry model
\* i32 addition leaves the i32 range
AddOverflows(a, b) ==
    IF b >= 0 THEN a > I32Max - b ELSE a < I32Min - b

\* i32 addition as a build without overflow checks computes it (mod 2^32)
WrappingAdd(a, b) ==
    IF ~AddOverflows(a, b) THEN a + b
    ELSE IF b >= 0 THEN ((a - I32Max) + (b - I32Max)) - 2
    ELSE (a - I32Min) + (b - I32Min)

\* the builds: with overflow checks (debug) an overflowing + panics, without
\* them (release) it wraps
Builds == {"debug", "release"}

\* contains_point with an exclusive upper bound
ContainsPointExclusive(bbox, x, y, build) ==
    IF build = "debug" /\ (AddOverflows(bbox.x, bbox.width)
                            \/ AddOverflows(bbox.y, bbox.height))
    THEN "panic"
    ELSE LET max_x == WrappingAdd(bbox.x, bbox.width)
             max_y == WrappingAdd(bbox.y, bbox.height)
         IN IF (bbox.x <= x /\ x < max_x) /\ (bbox.y <= y /\ y < max_y)
            THEN "true" ELSE "false"

\* l. 50-55: Screen::contains_point
ContainsPoint(bbox, x, y, build) ==
    IF build = "debug" /\ (AddOverflows(bbox.x, bbox.width)
                            \/ AddOverflows(bbox.y, bbox.height))
    THEN "panic"
    ELSE LET max_x == WrappingAdd(bbox.x, bbox.width)
             max_y == WrappingAdd(bbox.y, bbox.height)
         IN IF (bbox.x <= x /\ x <= max_x) /\ (bbox.y <= y /\ y <= max_y)
            THEN "true" ELSE "false"

\* contains_dock_area testing the left edge before the bottom edge
ContainsDockAreaLeftFirst(bbox, d, area, build) ==
    IF d.top > 0 THEN ContainsPoint(bbox, d.top_start_x, d.top, build)
    ELSE IF d.left > 0 THEN ContainsPoint(bbox, d.left, d.left_start_y, build)
    ELSE IF d.bottom > 0
         THEN ContainsPoint(bbox, d.bottom_start_x, area[1] - d.bottom, build)
    ELSE IF d.right > 0
         THEN ContainsPoint(bbox, area[2] - d.right, d.right_start_y, build)
    ELSE "false"

\* l. 58-73: Screen::contains_dock_area; screens_area.0 is area[1],
\* screens_area.1 is area[2]
ContainsDockArea(bbox, d, area, build) ==
    IF d.top > 0 THEN ContainsPoint(bbox, d.top_start_x, d.top, build)
    ELSE IF d.bottom > 0
         THEN ContainsPoint(bbox, d.bottom_start_x, area[1] - d.bottom, build)
    ELSE IF d.left > 0 THEN ContainsPoint(bbox, d.left, d.left_start_y, build)
    ELSE IF d.right > 0
         THEN ContainsPoint(bbox, area[2] - d.right, d.right_start_y, build)
    ELSE "false"

\* the screens and points contains_point is applied to: small rectangles and
\* the ends of the i32 range
PointBBoxes == [x : {I32Min, 0, 1, I32Max}, y : {I32Min, 0, I32Max},
                width : {0, 100, I32Max}, height : {0, 50, I32Max}]
PointXs == {I32Min, -1, 0, 100, 101, I32Max}
PointYs == {I32Min, 0, 50, 51, I32Max}

\* the screens, dock areas and screen areas contains_dock_area is applied to;
\* with these values screens_area - thickness stays in the i32 range
DockBBoxes == {[x |-> 0, y |-> 0, width |-> 100, height |-> 50],
               [x |-> 150, y |-> 0, width |-> 100, height |-> 50]}
Thicknesses == {-1, 0, 10}
Starts == {0, 200}
DockAreas == [top : Thicknesses, top_start_x : Starts,
              bottom : Thicknesses, bottom_start_x : Starts,
              left : Thicknesses, left_start_y : Starts,
              right : Thicknesses, right_start_y : Starts]
ScreensAreas == {60, 500} \X {60, 500}

\* l. 50-55: contains_point is applied to a screen and a point
ContainsPointCall ==
    /\ gop = "none"
    /\ \E bbox \in PointBBoxes, x \in PointXs, y \in PointYs, build \in Builds :
       /\ gop' = "contains_point"
       /\ gbbox' = bbox
       /\ gargs' = [x |-> x, y |-> y]
       /\ gres' = ContainsPoint(bbox, x, y, build)
       /\ UNCHANGED <<avars, rvars>>

\* l. 58-73: contains_dock_area is applied to a screen, a dock area and the
\* area of the screens
ContainsDockAreaCall ==
    /\ gop = "none"
    /\ \E bbox \in DockBBoxes, d \in DockAreas, area \in ScreensAreas,
       build \in Builds :
       /\ gop' = "contains_dock_area"
       /\ gbbox' = bbox
       /\ gargs' = [dock_area |-> d, screens_area |-> area]
       /\ gres' = ContainsDockArea(bbox, d, area, build)
       /\ UNCHANGED <<avars, rvars>>

NextGeometry ==
    \/ ContainsPointCall
    \/ ContainsDockAreaCall

SpecGeometry == Init /\ [][NextGeometry]_vars

\* x + width and y + height of the screen are i32 values
SumsInRange ==
    ~AddOverflows(gbbox.x, gbbox.width) /\ ~AddOverflows(gbbox.y, gbbox.height)

\* C13: contains_point(x, y) is true iff bbox.x <= x <= bbox.x + bbox.width
\* and bbox.y <= y <= bbox.y + bbox.height, both bounds inclusive (for every
\* screen whose x + width and y + height are i32 values).
C13_ContainsPointInclusive ==
    (gop = "contains_point" /\ SumsInRange) =>
       /\ gres \in {"true", "false"}
       /\ gres = "true" <=>
             /\ gbbox.x <= gargs.x /\ gargs.x <= gbbox.x + gbbox.width
             /\ gbbox.y <= gargs.y /\ gargs.y <= gbbox.y + gbbox.height

\* the far corner (100, 50) of the screen {0, 0, 100, 50} is inside
C13_Witness ==
    /\ gop = "contains_point"
    /\ gbbox = [x |-> 0, y |-> 0, width |-> 100, height |-> 50]
    /\ gargs = [x |-> 100, y |-> 50]
    /\ gres = "true"

\* p <= a + b over the integers, computed inside the i32 range
LeqSum(p, a, b) ==
    IF AddOverflows(a, b) THEN b >= 0 ELSE p <= a + b

\* C14: contains_point is total over all i32 screens and points: it returns
\* a boolean that agrees with the inclusive-rectangle test over the integers,
\* also when bbox.x + bbox.width or bbox.y + bbox.height exceeds the i32 range.
C14_ContainsPointTotal ==
    gop = "contains_point" =>
       /\ gres \in {"true", "false"}
       /\ gres = "true" <=>
             /\ gbbox.x <= gargs.x /\ LeqSum(gargs.x, gbbox.x, gbbox.width)
             /\ gbbox.y <= gargs.y /\ LeqSum(gargs.y, gbbox.y, gbbox.height)

\* the point the claim names for the first edge of positive thickness
DockPoint(d, area) ==
    IF d.top > 0 THEN <<d.top_start_x, d.top>>
    ELSE IF d.bottom > 0 THEN <<d.bottom_start_x, area[1] - d.bottom>>
    ELSE IF d.left > 0 THEN <<d.left, d.left_start_y>>
    ELSE <<area[2] - d.right, d.right_start_y>>

\* C15: contains_dock_area tests the first of top, bottom, left, right whose
\* thickness is > 0, at (top_start_x, top), (bottom_start_x,
\* screens_area.0 - bottom), (left, left_start_y) or (screens_area.1 - right,
\* right_start_y); later edges are ignored; with no positive edge it is false.
C15_DockAreaFirstPositiveEdge ==
    gop = "contains_dock_area" =>
       LET d == gargs.dock_area
           pt == DockPoint(d, gargs.screens_area)
       IN IF d.top > 0 \/ d.bottom > 0 \/ d.left > 0 \/ d.right > 0
          THEN gres = "true" <=>
                  /\ gbbox.x <= pt[1] /\ pt[1] <= gbbox.x + gbbox.width
                  /\ gbbox.y <= pt[2] /\ pt[2] <= gbbox.y + gbbox.height
          ELSE gres = "false"

\* bottom and left are both positive and only the bottom edge decides: its
\* point (0, 60 - 10) is inside while the left edge's point (10, 200) is not
C15_Witness ==
    /\ gop = "contains_dock_area"
    /\ gbbox = [x |-> 0, y |-> 0, width |-> 100, height |-> 50]
    /\ gargs.dock_area.top = 0
    /\ gargs.dock_area.bottom = 10 /\ gargs.dock_area.bottom_start_x = 0
    /\ gargs.dock_area.left = 10 /\ gargs.dock_area.left_start_y = 200
    /\ gargs.screens_area = <<60, 60>>
    /\ gres = "true"

\* ------------------------------------------- claims on the event batches
BootPart(batch) == SelectSeq(batch, IsBootstrapItem)
LivePart(batch) == SelectSeq(batch, IsLive)

\* C16: every call that returns has consumed exactly one raw event of its
\* connection and its batch ends with the item translated from it, if any: a
\* call that did not run the bootstrap returns 0 or 1 item, the one that did
\* returns the bootstrap items followed by 0 or 1 translated item; every raw
\* event handed out is held by exactly one call (none lost, none duplicated).
C16_OneRawEventPerCall ==
    /\ \A i \in DOMAIN returned :
          LET r == returned[i]
              b == r.batch
          IN /\ Len(r.raw) = 1
             /\ r.raw[1].conn = r.adapter
             /\ Len(LivePart(b)) = IF r.raw[1].relevant THEN 1 ELSE 0
             /\ \A k \in DOMAIN b :
                   IsLive(b[k]) => (k = Len(b) /\ b[k][2] = <<r.adapter, r.raw[1].seq>>)
             /\ ~r.ran => (Len(b) <= 1 /\ ~HasBootstrap(b))
             /\ \A j \in DOMAIN returned :
                   (i # j /\ returned[j].adapter = r.adapter)
                      => returned[j].raw[1].seq # r.raw[1].seq
    /\ \A t \in Threads :
          /\ Len(xlib_event[t]) = IF pc[t] = "return" THEN 1 ELSE 0
          /\ pc[t] = "return" =>
                \A j \in DOMAIN returned :
                   returned[j].adapter = self[t]
                      => returned[j].raw[1].seq # xlib_event[t][1].seq
    /\ \A a \in Adapters :
          nextRaw[a] = Cardinality({i \in DOMAIN returned : returned[i].adapter = a})
                       + Cardinality({t \in Threads : pc[t] = "return" /\ self[t] = a})

\* the bootstrap call returned its items followed by one translated item and
\* a later call returned a single translated item
C16_Witness ==
    \E i, j \in DOMAIN returned :
       /\ i < j
       /\ returned[i].ran
       /\ Len(BootPart(returned[i].batch)) >= 2
       /\ Len(LivePart(returned[i].batch)) = 1
       /\ ~returned[j].ran
       /\ Len(returned[j].batch) = 1

\* C17: once the latch has fired the bootstrap batch is never lost: the call
\* that ran the enumeration is still running, to return once its wait gets a
\* raw event, or has returned the batch; and it returns only after it has
\* received one raw event.
C17_BootstrapBatchNeverLost ==
    /\ SETUP # "incomplete" => (RanInFlight # {} \/ RanReturned # {})
    /\ \A i \in DOMAIN returned : returned[i].ran => Len(returned[i].raw) = 1

\* the screen events of the screens get_screens answered
LoggedScreenEvents ==
    [i \in 1..Len(enumLog.screens) |-> <<"ScreenCreate", enumLog.screens[i]>>]

\* C18: when get_all_windows fails during bootstrap the call goes on: its
\* bootstrap part is every ScreenCreate and no WindowCreate, the latch is
\* consumed, no call panics, the enumeration is not run again and no other
\* call returns a bootstrap item.
C18_EnumerationFailureKeepsScreens ==
    enumLog.windows = "Err" =>
       /\ SETUP \in {"running", "complete"}
       /\ Sum(enumRuns, Adapters) = 1
       /\ \A t \in Threads :
             /\ pc[t] # "panicked"
             /\ (InFlight(t) /\ ran[t]) =>
                   /\ SETUP = "running" <=> pc[t] = "push"
                   /\ BootPart(IF pc[t] = "push" THEN ievents[t] ELSE events[t])
                         = LoggedScreenEvents
             /\ (InFlight(t) /\ ~ran[t]) => ~HasBootstrap(events[t])
       /\ \A i \in DOMAIN returned :
             IF returned[i].ran
             THEN BootPart(returned[i].batch) = LoggedScreenEvents
             ELSE ~HasBootstrap(returned[i].batch)

\* get_all_windows failed, the first call returned the two ScreenCreate and
\* a later call returned no bootstrap item
C18_Witness ==
    /\ enumLog.windows = "Err"
    /\ Len(enumLog.screens) = 2
    /\ \E i, j \in DOMAIN returned :
          /\ i < j
          /\ returned[i].ran
          /\ BootPart(returned[i].batch) = <<ScreenCreate(1), ScreenCreate(2)>>
          /\ ~returned[j].ran
          /\ ~HasBootstrap(returned[j].batch)

====
